---- MODULE Spec2Model ----
(***************************************************************************)
(* The xDS client of dubbo-go: the authority registry of clientImpl, its   *)
(* idle-authority timeout cache, Close, SetMetadata, the update validator  *)
(* and the ORCA load-report codec.                                         *)
(***************************************************************************)
EXTENDS Integers, Sequences, FiniteSets, TLC

----------------------------------------------------------------------------
(* Bounds of the model. *)

\* number of concurrent callers (goroutines) of the client
NumProcs == 2
\* number of authority instances the client may construct in one run
MaxAuth == 3
\* number of SetMetadata calls in one run (each one leaks a reference)
MaxSetMeta == 1
\* the largest value of a field of a load report
MaxVal == 1

Procs == 1..NumProcs
AuthIds == 1..MaxAuth
\* the nil *authority
Nil == 0
\* authorityMu is unlocked
NoProc == 0

----------------------------------------------------------------------------
(* The bootstrap configuration (read-only after construction). *)

\* config.XDSServer.String(): the ServerIdentity of the default server
DefaultServer == "s1"
\* the ServerIdentity strings of the servers the bootstrap names
Servers == {"s1", "s2"}
\* config.Authorities: authority name -> ServerIdentity; "a1" shares the
\* default server's identity, "a2" names another server
Authorities == [a1 |-> "s1", a2 |-> "s2"]
\* the resource names callers ask for, by the authority they specify:
\* "" specifies none, "zz" is not in the bootstrap table
ResourceNames == {"", "a1", "a2", "zz"}
\* no server identity: the resource name's authority is unknown
NoServer == "none"

\* a resolution that falls back to the default server for an unknown authority
ServerOf_DefaultsUnknown(n) ==
    IF n \in DOMAIN Authorities THEN Authorities[n] ELSE DefaultServer

\* the server identity a resource name resolves to
ServerOf(n) ==
    IF n = "" THEN DefaultServer
    ELSE IF n \in DOMAIN Authorities THEN Authorities[n]
    ELSE NoServer

\* the errors of the client
ErrNone == "nil"
ErrClosed == "client closed"
ErrConfig == "authority not found in bootstrap"
ErrMetadata == "set metadata failed"

----------------------------------------------------------------------------
VARIABLES
    done,            \* c.done has fired
    authorityMu,     \* the goroutine that holds c.authorityMu, or NoProc
    authorities,     \* c.authorities: ServerIdentity -> authority or Nil
    idleAuthorities, \* c.idleAuthorities: ServerIdentity -> authority or Nil
    expiring,        \* authorities whose idle timer fired, callback not yet run
    refs,            \* reference count of each authority
    closeCount,      \* number of close() calls on each authority
    created,         \* number of authorities constructed so far
    cfg,             \* the ServerIdentity each authority was constructed for
    meta,            \* authority -> its metadata has been set
    watches,         \* authority -> number of endpoints watches issued on it
    setMetaCalls,    \* number of SetMetadata calls started
    pc,              \* where each goroutine is
    op,              \* the operation each goroutine runs or last ran
    arg,             \* the resource name of its findAuthority
    a,               \* the authority its findAuthority returned (held reference)
    err,             \* the error its last operation returned
    phase,           \* at the start of its operation: 0 open, 1 done fired,
                     \* 2 some Close had returned
    closeReturned,   \* some Close call has returned
    sweeps,          \* number of Close calls that have run the sweep
    tcHits,          \* per cache item: the hits that direct Get/Remove callers saw
    tcCleared,       \* per cache item: 1 a direct Clear(true) removed it,
                     \* 2 a direct Clear(false) removed it, 0 neither
    certProviders,   \* c.config.CertProviderConfigs: the instance names it has
    vIn,             \* the security config last validated (None: a nil pointer)
    vOut,            \* the error the validator returned for it
    uIn,             \* the update that updateValidator last ran on
    uOut,            \* the error updateValidator returned for it
    cIn,             \* the load report last encoded (None: a nil pointer)
    cBytes,          \* toBytes(cIn) (None: a nil slice)
    cMD,             \* ToMetadata(cIn)
    cFromBytes,      \* fromBytes(cBytes)
    cFromMD,         \* FromMetadata(cMD)
    dIn,             \* the metadata that FromMetadata last ran on
    dOut,            \* FromMetadata(dIn)
    opt,             \* an Options value that options are applied to
    optLog           \* the last options applied to it, each with the Options
                     \* value it was applied to

clientVars == <<done, authorityMu, authorities, idleAuthorities, expiring, refs,
                closeCount, created, cfg, meta, watches, setMetaCalls,
                pc, op, arg, a, err, phase, closeReturned, sweeps>>

validatorVars == <<certProviders, vIn, vOut, uIn, uOut>>

codecVars == <<cIn, cBytes, cMD, cFromBytes, cFromMD, dIn, dOut>>

\* what the direct callers of the cache observed
cacheObs == <<tcHits, tcCleared>>

optionVars == <<opt, optLog>>

vars == <<clientVars, cacheObs, validatorVars, codecVars, optionVars>>

\* a nil pointer, slice or map
None == <<>>
\* a non-nil pointer to x, or the slice x
Some(x) == <<x>>

\* newWithConfig: the state after construction
ClientInit ==
    /\ done = FALSE
    /\ authorityMu = NoProc
    /\ authorities = [s \in Servers |-> Nil]
    /\ idleAuthorities = [s \in Servers |-> Nil]
    /\ expiring = {}
    /\ refs = [i \in AuthIds |-> 0]
    /\ closeCount = [i \in AuthIds |-> 0]
    /\ created = 0
    /\ cfg = [i \in AuthIds |-> NoServer]
    /\ meta = [i \in AuthIds |-> FALSE]
    /\ watches = [i \in AuthIds |-> 0]
    /\ setMetaCalls = 0
    /\ pc = [p \in Procs |-> "idle"]
    /\ op = [p \in Procs |-> "none"]
    /\ arg = [p \in Procs |-> ""]
    /\ a = [p \in Procs |-> Nil]
    /\ err = [p \in Procs |-> ErrNone]
    /\ phase = [p \in Procs |-> 0]
    /\ closeReturned = FALSE
    /\ sweeps = 0

\* no caller has used the cache directly
CacheInit ==
    /\ tcHits = [i \in AuthIds |-> 0]
    /\ tcCleared = [i \in AuthIds |-> 0]

----------------------------------------------------------------------------
(* The timeout cache (xds_cache.TimeoutCache), as operators on its map. *)

\* a lookup that reports the hit but leaves the entry and its timer in place
TCRemove_LeavesEntry(c, k) ==
    [found |-> c[k] # Nil, item |-> c[k], cache |-> c]

\* Get / Remove: a hit cancels the timer and leaves the key absent
TCRemove(c, k) ==
    [found |-> c[k] # Nil, item |-> c[k], cache |-> [c EXCEPT ![k] = Nil]]

\* AddOrUpdate: insert or replace the entry and (re)start its timer
TCAddOrUpdate(c, k, v) == [c EXCEPT ![k] = v]

\* a Clear that runs the callbacks but leaves the entries and their timers
TCClear_KeepsTimers(c, runCallback) ==
    [cache |-> c,
     items |-> IF runCallback THEN {c[k] : k \in {x \in DOMAIN c : c[x] # Nil}}
               ELSE {}]

\* Clear: every entry is removed; items are the entries whose callbacks run
\* when runCallback is set
TCClear(c, runCallback) ==
    [cache |-> [k \in DOMAIN c |-> Nil],
     items |-> IF runCallback THEN {c[k] : k \in {x \in DOMAIN c : c[x] # Nil}}
               ELSE {}]

\* the phase an operation starts in
PhaseNow == IF closeReturned THEN 2 ELSE IF done THEN 1 ELSE 0

\* goroutines inside findAuthority: each may construct one authority
Finding == {q \in Procs : pc[q] \in {"find", "find_cs"}}

----------------------------------------------------------------------------
(* authority.close(), counted per authority. *)
closeAuthorities(cc, S) == [i \in AuthIds |-> IF i \in S THEN cc[i] + 1 ELSE cc[i]]

----------------------------------------------------------------------------
(* findAuthority: a watch (or SetMetadata) asks for the authority of a     *)
(* resource name.                                                          *)

\* a caller registers a watch on resource name n; it holds no reference yet
StartWatch(p, n) ==
    /\ pc[p] = "idle"
    /\ a[p] = Nil
    /\ created + Cardinality(Finding) < MaxAuth
    /\ pc' = [pc EXCEPT ![p] = "find"]
    /\ op' = [op EXCEPT ![p] = "watch"]
    /\ arg' = [arg EXCEPT ![p] = n]
    /\ err' = [err EXCEPT ![p] = ErrNone]
    /\ phase' = [phase EXCEPT ![p] = PhaseNow]
    /\ UNCHANGED <<done, authorityMu, authorities, idleAuthorities, expiring, refs,
                   closeCount, created, cfg, meta, watches, setMetaCalls, a,
                   closeReturned,
                   sweeps>>
    /\ UNCHANGED <<cacheObs, validatorVars, codecVars, optionVars>>

\* c.authorityMu.Lock() at the head of findAuthority
FindLock(p) ==
    /\ pc[p] = "find"
    /\ authorityMu = NoProc
    /\ authorityMu' = p
    /\ pc' = [pc EXCEPT ![p] = "find_cs"]
    /\ UNCHANGED <<done, authorities, idleAuthorities, expiring, refs, closeCount,
                   created, cfg, meta, watches, setMetaCalls, op, arg, a, err,
                   phase, closeReturned,
                   sweeps>>
    /\ UNCHANGED <<cacheObs, validatorVars, codecVars, optionVars>>

\* a SetMetadata that goes on whatever findAuthority returned
AfterFind_IgnoresErr(p, e) ==
    IF op[p] = "setmeta" THEN "set_md" ELSE "idle"

\* where findAuthority's caller continues: a watch is done, SetMetadata goes on
\* only when findAuthority returned no error
AfterFind(p, e) ==
    IF op[p] = "setmeta" /\ e = ErrNone THEN "set_md" ELSE "idle"

\* the critical section of findAuthority, up to the deferred Unlock: check the
\* done flag, resolve the server identity, then active, else idle, else create
findAuthority(p) ==
    /\ pc[p] = "find_cs"
    /\ authorityMu = p
    /\ authorityMu' = NoProc
    /\ LET s == ServerOf(arg[p])
           hit == TCRemove(idleAuthorities, s)
           new == created + 1
       IN  IF done THEN
                /\ err' = [err EXCEPT ![p] = ErrClosed]
                /\ pc' = [pc EXCEPT ![p] = AfterFind(p, ErrClosed)]
                /\ UNCHANGED <<authorities, idleAuthorities, refs, created, cfg, a>>
           ELSE IF s = NoServer THEN
                /\ err' = [err EXCEPT ![p] = ErrConfig]
                /\ pc' = [pc EXCEPT ![p] = AfterFind(p, ErrConfig)]
                /\ UNCHANGED <<authorities, idleAuthorities, refs, created, cfg, a>>
           ELSE IF authorities[s] # Nil THEN
                /\ a' = [a EXCEPT ![p] = authorities[s]]
                /\ refs' = [refs EXCEPT ![authorities[s]] = @ + 1]
                /\ err' = [err EXCEPT ![p] = ErrNone]
                /\ pc' = [pc EXCEPT ![p] = AfterFind(p, ErrNone)]
                /\ UNCHANGED <<authorities, idleAuthorities, created, cfg>>
           ELSE IF hit.found THEN
                /\ idleAuthorities' = hit.cache
                /\ authorities' = [authorities EXCEPT ![s] = hit.item]
                /\ a' = [a EXCEPT ![p] = hit.item]
                /\ refs' = [refs EXCEPT ![hit.item] = @ + 1]
                /\ err' = [err EXCEPT ![p] = ErrNone]
                /\ pc' = [pc EXCEPT ![p] = AfterFind(p, ErrNone)]
                /\ UNCHANGED <<created, cfg>>
           ELSE
                /\ created' = new
                /\ cfg' = [cfg EXCEPT ![new] = s]
                /\ authorities' = [authorities EXCEPT ![s] = new]
                /\ a' = [a EXCEPT ![p] = new]
                /\ refs' = [refs EXCEPT ![new] = 1]
                /\ err' = [err EXCEPT ![p] = ErrNone]
                /\ pc' = [pc EXCEPT ![p] = AfterFind(p, ErrNone)]
                /\ UNCHANGED idleAuthorities
    /\ UNCHANGED <<done, expiring, closeCount, meta, watches, setMetaCalls, op, arg,
                   phase, closeReturned,
                   sweeps>>
    /\ UNCHANGED <<cacheObs, validatorVars, codecVars, optionVars>>

----------------------------------------------------------------------------
(* Authority release: the cancel function of a watch. *)

\* the caller cancels its watch
StartRelease(p) ==
    /\ pc[p] = "idle"
    /\ a[p] # Nil
    /\ pc' = [pc EXCEPT ![p] = "unref"]
    /\ op' = [op EXCEPT ![p] = "release"]
    /\ phase' = [phase EXCEPT ![p] = PhaseNow]
    /\ UNCHANGED <<done, authorityMu, authorities, idleAuthorities, expiring, refs,
                   closeCount, created, cfg, meta, watches, setMetaCalls, arg, a, err,
                   closeReturned,
                   sweeps>>
    /\ UNCHANGED <<cacheObs, validatorVars, codecVars, optionVars>>

\* c.authorityMu.Lock() at the head of the release
UnrefLock(p) ==
    /\ pc[p] = "unref"
    /\ authorityMu = NoProc
    /\ authorityMu' = p
    /\ pc' = [pc EXCEPT ![p] = "unref_cs"]
    /\ UNCHANGED <<done, authorities, idleAuthorities, expiring, refs, closeCount,
                   created, cfg, meta, watches, setMetaCalls, op, arg, a, err,
                   phase, closeReturned,
                   sweeps>>
    /\ UNCHANGED <<cacheObs, validatorVars, codecVars, optionVars>>

\* a release that inserts into the idle cache but leaves the active entry
unrefAuthority_KeepsActive(p) ==
    /\ pc[p] = "unref_cs"
    /\ authorityMu = p
    /\ authorityMu' = NoProc
    /\ LET x == a[p] IN
        /\ refs' = [refs EXCEPT ![x] = @ - 1]
        /\ IF refs[x] - 1 > 0
             THEN UNCHANGED idleAuthorities
             ELSE idleAuthorities' = TCAddOrUpdate(idleAuthorities, cfg[x], x)
    /\ a' = [a EXCEPT ![p] = Nil]
    /\ pc' = [pc EXCEPT ![p] = "idle"]
    /\ UNCHANGED <<done, authorities, expiring, closeCount, created, cfg, meta,
                   watches, setMetaCalls, op, arg, err, phase, closeReturned,
                   sweeps>>
    /\ UNCHANGED <<cacheObs, validatorVars, codecVars, optionVars>>

\* a release that demotes the authority whatever the count has become
unrefAuthority_DemotesEarly(p) ==
    /\ pc[p] = "unref_cs"
    /\ authorityMu = p
    /\ authorityMu' = NoProc
    /\ LET x == a[p] IN
        /\ refs' = [refs EXCEPT ![x] = @ - 1]
        /\ authorities' = [authorities EXCEPT ![cfg[x]] = Nil]
        /\ idleAuthorities' = TCAddOrUpdate(idleAuthorities, cfg[x], x)
    /\ a' = [a EXCEPT ![p] = Nil]
    /\ pc' = [pc EXCEPT ![p] = "idle"]
    /\ UNCHANGED <<done, expiring, closeCount, created, cfg, meta, watches,
                   setMetaCalls, op, arg, err, phase, closeReturned, sweeps>>
    /\ UNCHANGED <<cacheObs, validatorVars, codecVars, optionVars>>

\* the critical section of the release: decrement; at zero move the authority
\* from the active registry to the idle cache
unrefAuthority(p) ==
    /\ pc[p] = "unref_cs"
    /\ authorityMu = p
    /\ authorityMu' = NoProc
    /\ LET x == a[p] IN
        /\ refs' = [refs EXCEPT ![x] = @ - 1]
        /\ IF refs[x] - 1 > 0
             THEN UNCHANGED <<authorities, idleAuthorities>>
             ELSE /\ authorities' = [authorities EXCEPT ![cfg[x]] = Nil]
                  /\ idleAuthorities' = TCAddOrUpdate(idleAuthorities, cfg[x], x)
    /\ a' = [a EXCEPT ![p] = Nil]
    /\ pc' = [pc EXCEPT ![p] = "idle"]
    /\ UNCHANGED <<done, expiring, closeCount, created, cfg, meta, watches,
                   setMetaCalls, op, arg, err, phase, closeReturned,
                   sweeps>>
    /\ UNCHANGED <<cacheObs, validatorVars, codecVars, optionVars>>

----------------------------------------------------------------------------
(* The idle cache's timer of the entry under key s. *)

\* the timer fires: under the cache's lock the entry is removed
TimerFire(s) ==
    /\ idleAuthorities[s] # Nil
    /\ idleAuthorities' = [idleAuthorities EXCEPT ![s] = Nil]
    /\ expiring' = expiring \cup {idleAuthorities[s]}
    /\ UNCHANGED <<done, authorityMu, authorities, refs, closeCount, created, cfg,
                   meta, watches, setMetaCalls, pc, op, arg, a, err, phase,
                   closeReturned,
                   sweeps>>
    /\ UNCHANGED <<cacheObs, validatorVars, codecVars, optionVars>>

\* then, outside the cache's lock, the eviction callback closes the authority
ExpiryCallback(i) ==
    /\ i \in expiring
    /\ expiring' = expiring \ {i}
    /\ closeCount' = closeAuthorities(closeCount, {i})
    /\ UNCHANGED <<done, authorityMu, authorities, idleAuthorities, refs, created,
                   cfg, meta, watches, setMetaCalls, pc, op, arg, a, err, phase,
                   closeReturned,
                   sweeps>>
    /\ UNCHANGED <<cacheObs, validatorVars, codecVars, optionVars>>

----------------------------------------------------------------------------
(* SetMetadata. *)

\* SetMetadata begins: findAuthority(resource.ParseName(""))
StartSetMetadata(p) ==
    /\ pc[p] = "idle"
    /\ a[p] = Nil
    /\ setMetaCalls < MaxSetMeta
    /\ created + Cardinality(Finding) < MaxAuth
    /\ setMetaCalls' = setMetaCalls + 1
    /\ pc' = [pc EXCEPT ![p] = "find"]
    /\ op' = [op EXCEPT ![p] = "setmeta"]
    /\ arg' = [arg EXCEPT ![p] = ""]
    /\ err' = [err EXCEPT ![p] = ErrNone]
    /\ phase' = [phase EXCEPT ![p] = PhaseNow]
    /\ UNCHANGED <<done, authorityMu, authorities, idleAuthorities, expiring, refs,
                   closeCount, created, cfg, meta, watches, a, closeReturned,
                   sweeps>>
    /\ UNCHANGED <<cacheObs, validatorVars, codecVars, optionVars>>

\* a SetMetadata that issues the endpoints watch whether or not the authority
\* took the metadata
SetMetadataOnAuthority_WatchesOnError(p) ==
    /\ pc[p] = "set_md"
    /\ \E ok \in BOOLEAN :
        IF ok
          THEN /\ meta' = [meta EXCEPT ![a[p]] = TRUE]
               /\ UNCHANGED err
          ELSE /\ err' = [err EXCEPT ![p] = ErrMetadata]
               /\ UNCHANGED meta
    /\ pc' = [pc EXCEPT ![p] = "watch_eps"]
    /\ UNCHANGED <<done, authorityMu, authorities, idleAuthorities, expiring, refs,
                   closeCount, created, cfg, watches, setMetaCalls, op, arg, phase,
                   closeReturned, a,
                   sweeps>>
    /\ UNCHANGED <<cacheObs, validatorVars, codecVars, optionVars>>

\* a.SetMetadata(m): the authority stores the metadata or reports an error;
\* on an error SetMetadata returns it
SetMetadataOnAuthority(p) ==
    /\ pc[p] = "set_md"
    /\ \E ok \in BOOLEAN :
        IF ok
          THEN /\ meta' = [meta EXCEPT ![a[p]] = TRUE]
               /\ pc' = [pc EXCEPT ![p] = "watch_eps"]
               /\ UNCHANGED <<err, a>>
          ELSE /\ err' = [err EXCEPT ![p] = ErrMetadata]
               /\ pc' = [pc EXCEPT ![p] = "idle"]
               /\ a' = [a EXCEPT ![p] = Nil]
               /\ UNCHANGED meta
    /\ UNCHANGED <<done, authorityMu, authorities, idleAuthorities, expiring, refs,
                   closeCount, created, cfg, watches, setMetaCalls, op, arg, phase,
                   closeReturned,
                   sweeps>>
    /\ UNCHANGED <<cacheObs, validatorVars, codecVars, optionVars>>

\* a SetMetadata that calls the release function before it returns
WatchEndpoints_Releases(p) ==
    /\ pc[p] = "watch_eps"
    /\ watches' = [watches EXCEPT ![a[p]] = @ + 1]
    /\ refs' = [refs EXCEPT ![a[p]] = @ - 1]
    /\ IF refs[a[p]] = 1
         THEN /\ authorities' = [authorities EXCEPT ![cfg[a[p]]] = Nil]
              /\ idleAuthorities' = TCAddOrUpdate(idleAuthorities, cfg[a[p]], a[p])
         ELSE UNCHANGED <<authorities, idleAuthorities>>
    /\ err' = [err EXCEPT ![p] = ErrNone]
    /\ a' = [a EXCEPT ![p] = Nil]
    /\ pc' = [pc EXCEPT ![p] = "idle"]
    /\ UNCHANGED <<done, authorityMu, expiring,
                   closeCount, created, cfg, meta, setMetaCalls, op, arg, phase,
                   closeReturned,
                   sweeps>>
    /\ UNCHANGED <<cacheObs, validatorVars, codecVars, optionVars>>

\* a.watchEndpoints("", ...) and return nil; the release function that
\* findAuthority returned is dropped
WatchEndpoints(p) ==
    /\ pc[p] = "watch_eps"
    /\ watches' = [watches EXCEPT ![a[p]] = @ + 1]
    /\ err' = [err EXCEPT ![p] = ErrNone]
    /\ a' = [a EXCEPT ![p] = Nil]
    /\ pc' = [pc EXCEPT ![p] = "idle"]
    /\ UNCHANGED <<done, authorityMu, authorities, idleAuthorities, expiring, refs,
                   closeCount, created, cfg, meta, setMetaCalls, op, arg, phase,
                   closeReturned,
                   sweeps>>
    /\ UNCHANGED <<cacheObs, validatorVars, codecVars, optionVars>>

----------------------------------------------------------------------------
(* Close. *)

\* a caller calls Close
StartClose(p) ==
    /\ pc[p] = "idle"
    /\ pc' = [pc EXCEPT ![p] = "close"]
    /\ op' = [op EXCEPT ![p] = "close"]
    /\ phase' = [phase EXCEPT ![p] = PhaseNow]
    /\ UNCHANGED <<done, authorityMu, authorities, idleAuthorities, expiring, refs,
                   closeCount, created, cfg, meta, watches, setMetaCalls, arg, a, err,
                   closeReturned,
                   sweeps>>
    /\ UNCHANGED <<cacheObs, validatorVars, codecVars, optionVars>>

\* a Close without the HasFired early return
CloseHasFired_NoCheck(p) ==
    /\ pc[p] = "close"
    /\ pc' = [pc EXCEPT ![p] = "close_fire"]
    /\ UNCHANGED <<done, authorityMu, authorities, idleAuthorities, expiring, refs,
                   closeCount, created, cfg, meta, watches, setMetaCalls, op, arg, a,
                   err, phase, closeReturned,
                   sweeps>>
    /\ UNCHANGED <<cacheObs, validatorVars, codecVars, optionVars>>

\* if c.done.HasFired() { return }
CloseHasFired(p) ==
    /\ pc[p] = "close"
    /\ IF done
         THEN /\ pc' = [pc EXCEPT ![p] = "idle"]
              /\ closeReturned' = TRUE
         ELSE /\ pc' = [pc EXCEPT ![p] = "close_fire"]
              /\ UNCHANGED closeReturned
    /\ UNCHANGED <<done, authorityMu, authorities, idleAuthorities, expiring, refs,
                   closeCount, created, cfg, meta, watches, setMetaCalls, op, arg, a,
                   err, phase, sweeps>>
    /\ UNCHANGED <<cacheObs, validatorVars, codecVars, optionVars>>

\* c.done.Fire()
CloseFire(p) ==
    /\ pc[p] = "close_fire"
    /\ done' = TRUE
    /\ pc' = [pc EXCEPT ![p] = "close_lock"]
    /\ UNCHANGED <<authorityMu, authorities, idleAuthorities, expiring, refs,
                   closeCount, created, cfg, meta, watches, setMetaCalls, op, arg, a,
                   err, phase, closeReturned,
                   sweeps>>
    /\ UNCHANGED <<cacheObs, validatorVars, codecVars, optionVars>>

\* c.authorityMu.Lock()
CloseLock(p) ==
    /\ pc[p] = "close_lock"
    /\ authorityMu = NoProc
    /\ authorityMu' = p
    /\ pc' = [pc EXCEPT ![p] = "close_cs"]
    /\ UNCHANGED <<done, authorities, idleAuthorities, expiring, refs, closeCount,
                   created, cfg, meta, watches, setMetaCalls, op, arg, a, err,
                   phase, closeReturned,
                   sweeps>>
    /\ UNCHANGED <<cacheObs, validatorVars, codecVars, optionVars>>

\* a sweep that waits until every fired idle timer has run its callback
CloseSweep_WaitsForTimers(p) ==
    /\ pc[p] = "close_cs"
    /\ authorityMu = p
    /\ expiring = {}
    /\ LET active == {authorities[s] : s \in {x \in Servers : authorities[x] # Nil}}
           cleared == TCClear(idleAuthorities, TRUE)
       IN  /\ closeCount' = closeAuthorities(closeAuthorities(closeCount, active),
                                             cleared.items)
           /\ idleAuthorities' = cleared.cache
    /\ authorityMu' = NoProc
    /\ pc' = [pc EXCEPT ![p] = "idle"]
    /\ closeReturned' = TRUE
    /\ sweeps' = sweeps + 1
    /\ UNCHANGED <<done, authorities, expiring, refs, created, cfg, meta, watches,
                   setMetaCalls, op, arg, a, err, phase>>
    /\ UNCHANGED <<cacheObs, validatorVars, codecVars, optionVars>>

\* the sweep: close every active authority, Clear(true) the idle cache (its
\* callbacks close the idle authorities), Unlock, return
CloseSweep(p) ==
    /\ pc[p] = "close_cs"
    /\ authorityMu = p
    /\ LET active == {authorities[s] : s \in {x \in Servers : authorities[x] # Nil}}
           cleared == TCClear(idleAuthorities, TRUE)
       IN  /\ closeCount' = closeAuthorities(closeAuthorities(closeCount, active),
                                             cleared.items)
           /\ idleAuthorities' = cleared.cache
    /\ authorityMu' = NoProc
    /\ pc' = [pc EXCEPT ![p] = "idle"]
    /\ closeReturned' = TRUE
    /\ sweeps' = sweeps + 1
    /\ UNCHANGED <<done, authorities, expiring, refs, created, cfg, meta, watches,
                   setMetaCalls, op, arg, a, err, phase>>
    /\ UNCHANGED <<cacheObs, validatorVars, codecVars, optionVars>>

----------------------------------------------------------------------------
(* The update validator. *)

\* certificate-provider instance names; "" is the unset name
InstanceNames == {"", "foo", "bar", "baz"}
\* resource.SecurityConfig: the two instance names the validator reads
SecurityConfigs == [IdentityInstanceName : InstanceNames, RootInstanceName : InstanceNames]
\* the nil error
NoError == [kind |-> "nil", name |-> ""]
\* fmt.Errorf("... certificate provider instance name %q missing ...", name)
MissingProvider(kind, name) == [kind |-> kind, name |-> name]

\* a validator that looks at the root instance first
securityConfigUpdateValidator_RootFirst(sc) ==
    IF sc = None THEN NoError
    ELSE IF sc[1].RootInstanceName # "" /\ sc[1].RootInstanceName \notin certProviders
         THEN MissingProvider("root", sc[1].RootInstanceName)
    ELSE IF sc[1].IdentityInstanceName # ""
            /\ sc[1].IdentityInstanceName \notin certProviders
         THEN MissingProvider("identity", sc[1].IdentityInstanceName)
    ELSE NoError

\* securityConfigUpdateValidator(sc) against c.config.CertProviderConfigs
securityConfigUpdateValidator(sc) ==
    IF sc = None THEN NoError
    ELSE IF sc[1].IdentityInstanceName # ""
            /\ sc[1].IdentityInstanceName \notin certProviders
         THEN MissingProvider("identity", sc[1].IdentityInstanceName)
    ELSE IF sc[1].RootInstanceName # "" /\ sc[1].RootInstanceName \notin certProviders
         THEN MissingProvider("root", sc[1].RootInstanceName)
    ELSE NoError

\* the client's bootstrap names no provider and nothing has been validated
ValidatorIdle ==
    /\ certProviders = {}
    /\ vIn = None
    /\ vOut = NoError
    /\ uIn = None
    /\ uOut = NoError

\* any bootstrap table of provider instances
ValidatorInit ==
    /\ certProviders \in SUBSET (InstanceNames \ {""})
    /\ vIn = None
    /\ vOut = NoError
    /\ uIn = None
    /\ uOut = NoError

\* the validator runs on a security config
ValidateSecurityConfig(sc) ==
    /\ vIn' = sc
    /\ vOut' = securityConfigUpdateValidator(sc)
    /\ UNCHANGED <<certProviders, uIn, uOut>>
    /\ UNCHANGED <<clientVars, cacheObs, codecVars, optionVars>>

\* a *SecurityConfig: nil or a config
SecurityCfgs == {None} \cup {Some(x) : x \in SecurityConfigs}

ValidatorNext ==
    \E sc \in SecurityCfgs : ValidateSecurityConfig(sc)

\* the longest filter-chain set of an update
MaxChains == 2
\* a *resource.FilterChain: nil or a chain with its SecurityCfg
FilterChainPtrs == {None} \cup {Some([SecurityCfg |-> sc]) : sc \in SecurityCfgs}
\* a *FilterChainManager: nil or the chains it holds, the default chain (which
\* may be nil) among them
FilterChainSets ==
    {None} \cup {Some(q) : q \in UNION {[1..n -> FilterChainPtrs] : n \in 0..MaxChains}}
\* a *resource.InboundListenerConfig: nil or a config with its FilterChains
InboundListenerCfgs == {None} \cup {Some([FilterChains |-> f]) : f \in FilterChainSets}
\* the updates handed to the validator: a resource.ListenerUpdate, a
\* resource.ClusterUpdate, or an update of another type
Updates ==
    {[kind |-> "listener", InboundListenerCfg |-> l, SecurityCfg |-> None]
        : l \in InboundListenerCfgs}
    \cup {[kind |-> "cluster", InboundListenerCfg |-> None, SecurityCfg |-> sc]
        : sc \in SecurityCfgs}
    \cup {[kind |-> "route", InboundListenerCfg |-> None, SecurityCfg |-> None]}

\* filterChainUpdateValidator(fc)
filterChainUpdateValidator(fc) ==
    IF fc = None THEN NoError ELSE securityConfigUpdateValidator(fc[1].SecurityCfg)

\* FilterChains.Validate(f): f runs on the chains until one returns an error,
\* in an order the caller does not fix; the errors it can return
Validate(chains, f) ==
    LET failing == {k \in DOMAIN chains : f[chains[k]] # NoError}
    IN  IF failing = {} THEN {NoError} ELSE {f[chains[k]] : k \in failing}

\* an updateValidator that lets every cluster update through
updateValidator_ClusterUnchecked(u) ==
    IF u.kind = "listener" THEN
        IF u.InboundListenerCfg = None \/ u.InboundListenerCfg[1].FilterChains = None
          THEN {NoError}
          ELSE Validate(u.InboundListenerCfg[1].FilterChains[1],
                        [fc \in FilterChainPtrs |-> filterChainUpdateValidator(fc)])
    ELSE {NoError}

\* updateValidator(u): the errors it can return
updateValidator(u) ==
    IF u.kind = "listener" THEN
        IF u.InboundListenerCfg = None \/ u.InboundListenerCfg[1].FilterChains = None
          THEN {NoError}
          ELSE Validate(u.InboundListenerCfg[1].FilterChains[1],
                        [fc \in FilterChainPtrs |-> filterChainUpdateValidator(fc)])
    ELSE IF u.kind = "cluster" THEN {securityConfigUpdateValidator(u.SecurityCfg)}
    ELSE {NoError}

\* the validator runs on an update
ValidateUpdate(u) ==
    /\ uIn' = Some(u)
    /\ uOut' \in updateValidator(u)
    /\ UNCHANGED <<certProviders, vIn, vOut>>
    /\ UNCHANGED <<clientVars, cacheObs, codecVars, optionVars>>

UpdateNext ==
    \E u \in Updates : ValidateUpdate(u)

----------------------------------------------------------------------------
(* The ORCA load-report codec. *)

\* const mdKey
mdKey == "X-Endpoint-Load-Metrics-Bin"
\* the keys of a metadata.MD (stored in lower case)
MDKeys == {"x-endpoint-load-metrics-bin", "content-type"}
\* strings.ToLower on the keys in use
ToLower(k) == IF k = mdKey THEN "x-endpoint-load-metrics-bin" ELSE k

\* the values of a numeric field
Values == 0..MaxVal
\* the keys of the request_cost map; "\xff" is not valid UTF-8
CostKeys == {"k", "j", "\\xff"}
ValidUTF8(k) == k # "\\xff"
\* the partial maps from cost keys to values
CostMaps == UNION {[D -> Values] : D \in SUBSET CostKeys}
\* orcapb.OrcaLoadReport: cpu_utilization (field 1), rps (field 3) and
\* request_cost (field 4)
Reports == [cpu : Values, rps : Values, cost : CostMaps]
\* new(orcapb.OrcaLoadReport)
EmptyReport == [cpu |-> 0, rps |-> 0, cost |-> <<>>]

\* one field on the wire: field number, map key ("" for a scalar), value
Field(f, k, v) == [f |-> f, k |-> k, v |-> v]
\* the scalar fields in field order; proto3 leaves out the zero values
ScalarFields(r) ==
    (IF r.cpu # 0 THEN <<Field(1, "", r.cpu)>> ELSE <<>>)
        \o (IF r.rps # 0 THEN <<Field(3, "", r.rps)>> ELSE <<>>)
\* the map entries in any order (Go's map iteration order)
MapFields(m) ==
    LET n == Cardinality(DOMAIN m) IN
    {[i \in 1..n |-> Field(4, ord[i], m[ord[i]])] :
        ord \in {o \in [1..n -> DOMAIN m] : \A x \in 1..n, y \in 1..n : o[x] = o[y] => x = y}}

\* proto.Marshal(r): the encodings it may return, or an error (the empty set)
\* when a string is not valid UTF-8
Marshal(r) ==
    IF \E k \in DOMAIN r.cost : ~ValidUTF8(k) THEN {}
    ELSE {ScalarFields(r) \o e : e \in MapFields(r.cost)}

\* proto.Unmarshal(b, new(OrcaLoadReport)): None on an error (field number 0,
\* a string that is not valid UTF-8); a later scalar replaces an earlier one,
\* a field the message does not have is skipped
RECURSIVE UnmarshalFrom(_, _, _)
UnmarshalFrom(b, i, acc) ==
    IF i > Len(b) THEN Some(acc)
    ELSE LET t == b[i] IN
         IF t.f = 0 THEN None
         ELSE IF t.f = 1 THEN UnmarshalFrom(b, i + 1, [acc EXCEPT !.cpu = t.v])
         ELSE IF t.f = 3 THEN UnmarshalFrom(b, i + 1, [acc EXCEPT !.rps = t.v])
         ELSE IF t.f = 4 THEN
            IF ~ValidUTF8(t.k) THEN None
            ELSE UnmarshalFrom(b, i + 1,
                    [acc EXCEPT !.cost = [x \in DOMAIN acc.cost \cup {t.k} |->
                                            IF x = t.k THEN t.v ELSE acc.cost[x]]])
         ELSE UnmarshalFrom(b, i + 1, acc)
Unmarshal(b) == UnmarshalFrom(b, 1, EmptyReport)

\* toBytes(r): the byte slices it may return; None is the nil slice
toBytes(r) ==
    IF r = None THEN {None}
    ELSE IF Marshal(r[1]) = {} THEN {None}
    ELSE {Some(b) : b \in Marshal(r[1])}

\* metadata.Pairs(k, v)
Pairs(k, v) == [x \in MDKeys |-> IF x = ToLower(k) THEN <<v>> ELSE <<>>]
\* the nil metadata.MD
NilMD == [x \in MDKeys |-> <<>>]
\* md.Get(k)
Get(md, k) == md[ToLower(k)]

\* a ToMetadata that takes the empty encoding for a missing one
ToMetadata_DropsEmpty(r) ==
    {IF b = None \/ b = Some(<<>>) THEN NilMD ELSE Pairs(mdKey, b[1]) : b \in toBytes(r)}

\* ToMetadata(r): the metadata it may return
ToMetadata(r) ==
    {IF b = None THEN NilMD ELSE Pairs(mdKey, b[1]) : b \in toBytes(r)}

\* fromBytes(b); a nil slice unmarshals as the empty one
fromBytes(b) == Unmarshal(IF b = None THEN <<>> ELSE b[1])

\* a FromMetadata that decodes the last value under the key
FromMetadata_LastValue(md) ==
    LET vs == Get(md, mdKey) IN
    IF Len(vs) = 0 THEN None ELSE fromBytes(Some(vs[Len(vs)]))

\* FromMetadata(md)
FromMetadata(md) ==
    LET vs == Get(md, mdKey) IN
    IF Len(vs) = 0 THEN None ELSE fromBytes(Some(vs[1]))

\* nothing encoded yet: what the codec gives for a nil report
CodecIdle ==
    /\ cIn = None
    /\ cBytes = None
    /\ cMD = NilMD
    /\ cFromBytes = Some(EmptyReport)
    /\ cFromMD = None
    /\ dIn = NilMD
    /\ dOut = None

\* a report goes through toBytes and fromBytes, and through ToMetadata and
\* FromMetadata
RoundTrip(r) ==
    /\ cIn' = r
    /\ cBytes' \in toBytes(r)
    /\ cFromBytes' = fromBytes(cBytes')
    /\ cMD' \in ToMetadata(r)
    /\ cFromMD' = FromMetadata(cMD')
    /\ UNCHANGED <<dIn, dOut>>
    /\ UNCHANGED <<clientVars, cacheObs, validatorVars, optionVars>>

CodecNext == \E r \in {None} \cup {Some(x) : x \in Reports} : RoundTrip(r)

\* the longest value, in fields, and the most values under one key of the
\* metadata a peer sends
MaxWire == 1
MaxValues == 2
\* the fields a peer may put on the wire: field number 0 is no field, field 2
\* is not read here, "\xff" is not valid UTF-8
WireFields ==
    {Field(0, "", 1), Field(1, "", 1), Field(2, "", 1), Field(4, "k", 1),
     Field(4, "\\xff", 1)}
\* the values of a metadata key
WireValues == UNION {[1..n -> WireFields] : n \in 0..MaxWire}
\* the metadata a peer may send
PeerMDs ==
    {[x \in MDKeys |-> IF x = ToLower(mdKey) THEN vs ELSE other] :
        vs \in UNION {[1..n -> WireValues] : n \in 0..MaxValues},
        other \in {<<>>, << <<>> >>}}

\* FromMetadata runs on the metadata of a peer
Decode(md) ==
    /\ dIn' = md
    /\ dOut' = FromMetadata(md)
    /\ UNCHANGED <<cIn, cBytes, cMD, cFromBytes, cFromMD>>
    /\ UNCHANGED <<clientVars, cacheObs, validatorVars, optionVars>>

CodecMDNext ==
    \/ \E r \in {None} \cup {Some(x) : x \in Reports} : RoundTrip(r)
    \/ \E md \in PeerMDs : Decode(md)

----------------------------------------------------------------------------
(* The options of a dynamic configuration. *)

\* const DEFAULT_GROUP
DEFAULT_GROUP == "dubbo"
\* the group names in use; "" is the zero value
Groups == {"", DEFAULT_GROUP, "g1"}
\* the longest timeout in use
MaxTimeout == 2
\* the values of a time.Duration in use; 0 is the zero value
Timeouts == 0..MaxTimeout
\* type Options struct
OptionsValues == [Group : Groups, Timeout : Timeouts]
\* the Option values that WithGroup and WithTimeout return
OptionValues ==
    {[with |-> "Group", group |-> g, time |-> 0] : g \in Groups}
    \cup {[with |-> "Timeout", group |-> "", time |-> t] : t \in Timeouts}
\* how many applications are remembered
LogLen == 2

\* a WithGroup whose Option also clears the timeout
WithGroup_ResetsTimeout(group, o) == [Group |-> group, Timeout |-> 0]

\* WithGroup(group)(o): the Options value the Option leaves in *o
WithGroup(group, o) == [o EXCEPT !.Group = group]

\* WithTimeout(time)(o)
WithTimeout(time, o) == [o EXCEPT !.Timeout = time]

\* the zero Options value, nothing applied to it
OptionsIdle ==
    /\ opt = [Group |-> "", Timeout |-> 0]
    /\ optLog = <<>>

\* any Options value, nothing applied to it
OptionsInit ==
    /\ opt \in OptionsValues
    /\ optLog = <<>>

\* the log with one more application, the oldest one dropped
Logged(f) ==
    LET l == Append(optLog, [applied |-> f, to |-> opt])
    IN  IF Len(l) > LogLen THEN Tail(l) ELSE l

\* WithGroup(g) is applied to the Options value
ApplyWithGroup(g) ==
    /\ opt' = WithGroup(g, opt)
    /\ optLog' = Logged([with |-> "Group", group |-> g, time |-> 0])
    /\ UNCHANGED <<clientVars, cacheObs, validatorVars, codecVars>>

\* WithTimeout(t) is applied to the Options value
ApplyWithTimeout(t) ==
    /\ opt' = WithTimeout(t, opt)
    /\ optLog' = Logged([with |-> "Timeout", group |-> "", time |-> t])
    /\ UNCHANGED <<clientVars, cacheObs, validatorVars, codecVars>>

OptionsNext ==
    \/ \E g \in Groups : ApplyWithGroup(g)
    \/ \E t \in Timeouts : ApplyWithTimeout(t)

----------------------------------------------------------------------------
(* The client under concurrent callers. *)

ClientNext ==
    \/ \E p \in Procs, n \in ResourceNames : StartWatch(p, n)
    \/ \E p \in Procs : FindLock(p)
    \/ \E p \in Procs : findAuthority(p)
    \/ \E p \in Procs : StartRelease(p)
    \/ \E p \in Procs : UnrefLock(p)
    \/ \E p \in Procs : unrefAuthority(p)
    \/ \E s \in Servers : TimerFire(s)
    \/ \E i \in AuthIds : ExpiryCallback(i)
    \/ \E p \in Procs : StartSetMetadata(p)
    \/ \E p \in Procs : SetMetadataOnAuthority(p)
    \/ \E p \in Procs : WatchEndpoints(p)
    \/ \E p \in Procs : StartClose(p)
    \/ \E p \in Procs : CloseHasFired(p)
    \/ \E p \in Procs : CloseFire(p)
    \/ \E p \in Procs : CloseLock(p)
    \/ \E p \in Procs : CloseSweep(p)

Init == ClientInit /\ CacheInit /\ ValidatorIdle /\ CodecIdle /\ OptionsIdle

Next == ClientNext

Spec == Init /\ [][Next]_vars

\* The client under callers that watch resources, release them and close the client, with the idle timers running.
MaxLiveAuth == 2

LiveWatch(p) ==
    /\ created + Cardinality(Finding) < MaxLiveAuth
    /\ \E n \in ResourceNames : StartWatch(p, n)

LiveNext ==
    \/ \E p \in Procs : LiveWatch(p)
    \/ \E p \in Procs : FindLock(p)
    \/ \E p \in Procs : findAuthority(p)
    \/ \E p \in Procs : StartRelease(p)
    \/ \E p \in Procs : UnrefLock(p)
    \/ \E p \in Procs : unrefAuthority(p)
    \/ \E s \in Servers : TimerFire(s)
    \/ \E i \in AuthIds : ExpiryCallback(i)
    \/ \E p \in Procs : StartClose(p)
    \/ \E p \in Procs : CloseHasFired(p)
    \/ \E p \in Procs : CloseFire(p)
    \/ \E p \in Procs : CloseLock(p)
    \/ \E p \in Procs : CloseSweep(p)

\* the scheduling of goroutines: a goroutine that can take a step of Close, or
\* that holds authorityMu, eventually runs; sync.Mutex hands the lock to a
\* goroutine that keeps waiting for it (starvation mode). Callers need not
\* call, and timers need not fire.
Fairness ==
    \A p \in Procs :
        /\ WF_vars(CloseHasFired(p))
        /\ WF_vars(CloseFire(p))
        /\ SF_vars(CloseLock(p))
        /\ WF_vars(CloseSweep(p))
        /\ WF_vars(findAuthority(p))
        /\ WF_vars(unrefAuthority(p))

FairSpec == Init /\ [][LiveNext]_vars /\ Fairness

----------------------------------------------------------------------------
(* The timeout cache under callers that use it directly: every AddOrUpdate *)
(* stores a fresh item whose onExpiry closes it.                           *)

\* what the cache's callers leave alone
cacheFrame == <<done, authorityMu, authorities, refs, meta, watches, setMetaCalls,
                pc, op, arg, a, err, phase, closeReturned, sweeps>>

\* AddOrUpdate(k, item, onExpiry) with a fresh item
CacheAddOrUpdate(k) ==
    /\ created < MaxAuth
    /\ created' = created + 1
    /\ cfg' = [cfg EXCEPT ![created + 1] = k]
    /\ idleAuthorities' = TCAddOrUpdate(idleAuthorities, k, created + 1)
    /\ UNCHANGED <<expiring, closeCount, tcHits, tcCleared>>
    /\ UNCHANGED cacheFrame
    /\ UNCHANGED <<validatorVars, codecVars, optionVars>>

\* what a Get or a Remove of key k does
CacheLookup(k) ==
    LET r == TCRemove(idleAuthorities, k) IN
    /\ idleAuthorities' = r.cache
    /\ tcHits' = IF r.found THEN [tcHits EXCEPT ![r.item] = @ + 1] ELSE tcHits
    /\ UNCHANGED <<expiring, closeCount, created, cfg, tcCleared>>
    /\ UNCHANGED cacheFrame
    /\ UNCHANGED <<validatorVars, codecVars, optionVars>>

\* Get(k)
CacheGet(k) == CacheLookup(k)

\* Remove(k)
CacheRemove(k) == CacheLookup(k)

\* Clear(runCallback)
CacheClear(runCallback) ==
    LET r == TCClear(idleAuthorities, runCallback) IN
    /\ idleAuthorities' = r.cache
    /\ closeCount' = closeAuthorities(closeCount, r.items)
    /\ tcCleared' = [i \in AuthIds |->
                        IF \E k \in Servers : idleAuthorities[k] = i
                          THEN (IF runCallback THEN 1 ELSE 2)
                          ELSE tcCleared[i]]
    /\ UNCHANGED <<expiring, created, cfg, tcHits>>
    /\ UNCHANGED cacheFrame
    /\ UNCHANGED <<validatorVars, codecVars, optionVars>>

CacheNext ==
    \/ \E k \in Servers : CacheAddOrUpdate(k)
    \/ \E k \in Servers : CacheGet(k)
    \/ \E k \in Servers : CacheRemove(k)
    \/ \E b \in BOOLEAN : CacheClear(b)
    \/ \E k \in Servers : TimerFire(k)
    \/ \E i \in AuthIds : ExpiryCallback(i)

SpecCache == Init /\ [][CacheNext]_vars

----------------------------------------------------------------------------
(* The validator over every bootstrap table, and the codec over every      *)
(* report.                                                                 *)

InitValidator == ClientInit /\ CacheInit /\ CodecIdle /\ ValidatorInit /\ OptionsIdle

SpecValidator == InitValidator /\ [][ValidatorNext]_vars

SpecUpdate == InitValidator /\ [][UpdateNext]_vars

SpecCodec == Init /\ [][CodecNext]_vars

SpecCodecMD == Init /\ [][CodecMDNext]_vars

InitOptions == ClientInit /\ CacheInit /\ ValidatorIdle /\ CodecIdle /\ OptionsInit

SpecOptions == InitOptions /\ [][OptionsNext]_vars

----------------------------------------------------------------------------
(* Properties of the client. *)

\* the authorities constructed so far
Created == 1..created
\* close() has been called on authority i
IsClosed(i) == closeCount[i] > 0
\* goroutine p takes the step that runs findAuthority's critical section
FindStep(p) == pc[p] = "find_cs" /\ pc'[p] # "find_cs"

\* C1: no ServerIdentity key is in the active registry and in the idle cache
\* at the same time, in any interleaving of findAuthority, release, idle-timer
\* expiry and Close.
C1_NeverActiveAndIdle ==
    \A s \in Servers : ~(authorities[s] # Nil /\ idleAuthorities[s] # Nil)

\* an authority was demoted to the idle cache while another key is active and a
\* findAuthority for the idle key is about to run
C1_Witness ==
    \E s \in Servers, t \in Servers, p \in Procs :
        /\ idleAuthorities[s] # Nil /\ authorities[s] = Nil
        /\ authorities[t] # Nil /\ idleAuthorities[t] = Nil
        /\ pc[p] = "find_cs" /\ ServerOf(arg[p]) = s

\* C2: callers that hold references for one ServerIdentity hold the same
\* Authority instance, and at no time do two non-closed Authority instances
\* exist for one ServerIdentity.
C2_OneLiveAuthorityPerIdentity ==
    /\ \A p \in Procs, q \in Procs :
          (a[p] # Nil /\ a[q] # Nil /\ cfg[a[p]] = cfg[a[q]]) => a[p] = a[q]
    /\ \A i \in Created, j \in Created :
          (i # j /\ cfg[i] = cfg[j]) => (IsClosed(i) \/ IsClosed(j))

\* C3: once a Close call has returned, every Authority this client ever
\* constructed is closed, and so is every authority a findAuthority returned.
C3_AllClosedAfterClose ==
    closeReturned =>
        /\ \A i \in Created : IsClosed(i)
        /\ \A p \in Procs : a[p] # Nil => IsClosed(a[p])

\* C4: a Close that starts after a Close has returned is a no-op: it returns
\* at once, closes no authority, runs no expiry callback and leaves the done
\* flag, the active registry and the idle cache as they were.
C4_SecondCloseNoOp ==
    [][\A p \in Procs :
          (pc[p] = "close" /\ phase[p] = 2 /\ pc'[p] # "close") =>
              /\ pc'[p] = "idle"
              /\ UNCHANGED <<done, authorities, idleAuthorities, expiring,
                             closeCount, refs, created>>]_vars

\* a Close that started after another Close had returned has returned
C4_Witness ==
    \E p \in Procs : op[p] = "close" /\ phase[p] = 2 /\ pc[p] = "idle"

\* C5: the done flag never returns to unfired, and once it has fired every
\* findAuthority (of a watch or of SetMetadata) returns the client-closed
\* error, creates or revives no authority and takes no reference, and
\* SetMetadata then sets no metadata and issues no watch.
C5_ClosedClientRejects ==
    [][/\ done => done'
       /\ \A p \in Procs :
            (done /\ FindStep(p)) =>
                /\ err'[p] = ErrClosed
                /\ pc'[p] = "idle"
                /\ UNCHANGED <<authorities, idleAuthorities, created, refs, a,
                               meta, watches>>]_vars

\* a SetMetadata and a watch that started after done fired have both failed
\* with the client-closed error
C5_Witness ==
    \E p \in Procs, q \in Procs :
        /\ op[p] = "setmeta" /\ phase[p] >= 1 /\ pc[p] = "idle" /\ err[p] = ErrClosed
        /\ op[q] = "watch" /\ phase[q] >= 1 /\ pc[q] = "idle" /\ err[q] = ErrClosed

\* C6: a findAuthority that finds its ServerIdentity in the idle cache moves
\* that same instance back to the active registry, cancelling its eviction
\* (the instance is not closed by the timer); one that constructs a fresh
\* instance does so only when every older instance of that ServerIdentity
\* has been closed.
C6_ReviveOrFresh ==
    [][\A p \in Procs :
          (FindStep(p) /\ err'[p] = ErrNone) =>
              LET s == ServerOf(arg[p]) IN
              /\ (authorities[s] = Nil /\ idleAuthorities[s] # Nil) =>
                    /\ a'[p] = idleAuthorities[s]
                    /\ authorities'[s] = idleAuthorities[s]
                    /\ idleAuthorities'[s] = Nil
                    /\ idleAuthorities[s] \notin expiring'
                    /\ closeCount' = closeCount
              /\ created' # created =>
                    \A i \in Created : cfg[i] = s => IsClosed(i)]_vars

\* C12: however many Close calls run concurrently, at most one of them
\* performs the sweep; the others return without closing any authority.
C12_ExactlyOneSweep == sweeps <= 1

\* goroutine p takes the step that runs the release's critical section
UnrefStep(p) == pc[p] = "unref_cs" /\ pc'[p] # "unref_cs"

\* C14: while the done flag has not fired, an Authority in the idle cache has
\* reference count zero, every Authority in the active registry has a count
\* of at least one, and no Authority with a count above zero is closed; a
\* release that leaves the count above zero changes neither collection, and
\* the one that brings it to zero moves the authority from the active
\* registry to the idle cache in that one step.
C14_RefCountDiscipline ==
    [][/\ ~done' =>
            /\ \A s \in Servers :
                /\ idleAuthorities'[s] # Nil => refs'[idleAuthorities'[s]] = 0
                /\ authorities'[s] # Nil => refs'[authorities'[s]] >= 1
            /\ \A i \in AuthIds : refs'[i] > 0 => closeCount'[i] = 0
       /\ \A p \in Procs :
            UnrefStep(p) =>
                LET x == a[p] IN
                /\ refs'[x] = refs[x] - 1
                /\ refs'[x] > 0 => UNCHANGED <<authorities, idleAuthorities>>
                /\ refs'[x] = 0 =>
                    /\ authorities'[cfg[x]] = Nil
                    /\ idleAuthorities'[cfg[x]] = x]_vars

\* on an open client one authority sits in the idle cache after its last
\* release, and a release has left another one active with a count above zero
C14_Witness ==
    /\ ~done
    /\ \E s \in Servers, t \in Servers, p \in Procs :
        /\ idleAuthorities[s] # Nil /\ refs[idleAuthorities[s]] = 0
        /\ authorities[t] # Nil /\ refs[authorities[t]] >= 1
        /\ op[p] = "release" /\ pc[p] = "idle" /\ arg[p] # "" /\ ServerOf(arg[p]) = t

\* goroutine p is inside Close
InClose(p) == pc[p] \in {"close", "close_fire", "close_lock", "close_cs"}

\* C13: under fair scheduling every Close call returns, whatever
\* findAuthority, release and idle-timer steps interleave with it.
C13_CloseReturns == \A p \in Procs : InClose(p) ~> ~InClose(p)

\* a Close has swept and returned while a fired idle timer has not run its
\* callback and another goroutine is inside findAuthority or a release
C13_Witness ==
    \E p \in Procs, q \in Procs :
        /\ op[p] = "close" /\ pc[p] = "idle" /\ sweeps >= 1
        /\ expiring # {}
        /\ pc[q] \in {"find", "find_cs", "unref", "unref_cs"}

\* goroutine p is inside SetMetadata
InSetMetadata(p) == op[p] = "setmeta" /\ pc[p] # "idle"

\* C18: SetMetadata resolves the authority of the empty name; when that fails
\* it returns the error and no authority is touched; then it sets the metadata;
\* when that fails it returns the error and issues no watch; the endpoints
\* watch is issued only after both succeeded, and then SetMetadata returns nil.
C18_SetMetadataStepOrder ==
    [][\A p \in Procs :
        /\ InSetMetadata(p) /\ pc[p] \in {"find", "find_cs"} => arg[p] = ""
        /\ InSetMetadata(p) /\ FindStep(p) =>
              IF err'[p] # ErrNone
                THEN /\ pc'[p] = "idle"
                     /\ a'[p] = Nil
                     /\ UNCHANGED <<authorities, idleAuthorities, refs, meta,
                                    watches, created>>
                ELSE /\ pc'[p] = "set_md"
                     /\ cfg'[a'[p]] = DefaultServer
                     /\ authorities'[DefaultServer] = a'[p]
                     /\ UNCHANGED <<meta, watches>>
        /\ pc[p] = "set_md" /\ pc'[p] # "set_md" =>
              /\ InSetMetadata(p)
              /\ UNCHANGED watches
              /\ IF err'[p] # ErrNone
                   THEN pc'[p] = "idle" /\ UNCHANGED meta
                   ELSE pc'[p] = "watch_eps" /\ meta'[a[p]]
        /\ pc[p] = "watch_eps" /\ pc'[p] # "watch_eps" =>
              /\ InSetMetadata(p)
              /\ err[p] = ErrNone /\ meta[a[p]]
              /\ watches' = [watches EXCEPT ![a[p]] = @ + 1]
              /\ pc'[p] = "idle" /\ err'[p] = ErrNone
        /\ pc'[p] = "set_md" /\ pc[p] # "set_md" => pc[p] = "find_cs"
        /\ pc'[p] = "watch_eps" /\ pc[p] # "watch_eps" => pc[p] = "set_md"]_vars

\* a SetMetadata call found its authority, was refused the metadata and
\* returned that error with no watch issued
C18_Witness ==
    \E p \in Procs :
        /\ op[p] = "setmeta" /\ pc[p] = "idle" /\ err[p] = ErrMetadata
        /\ authorities[DefaultServer] # Nil
        /\ refs[authorities[DefaultServer]] >= 1
        /\ \A i \in AuthIds : watches[i] = 0

\* C19: an authority that a SetMetadata call has issued its watch on keeps a
\* reference count above zero, stays in the active registry, is in no idle
\* cache entry and no fired timer, and is not closed until Close.
C19_SetMetadataPinsAuthority ==
    \A i \in AuthIds :
        watches[i] > 0 =>
            /\ refs[i] > 0
            /\ authorities[cfg[i]] = i
            /\ \A s \in Servers : idleAuthorities[s] # i
            /\ i \notin expiring
            /\ ~done => closeCount[i] = 0

\* after a successful SetMetadata a watch on the same authority was cancelled
\* and the reference of SetMetadata is the only one left
C19_Witness ==
    /\ ~done
    /\ \E i \in AuthIds, p \in Procs :
        /\ watches[i] > 0 /\ refs[i] = 1
        /\ op[p] = "release" /\ pc[p] = "idle" /\ a[p] = Nil
        /\ ServerOf(arg[p]) = cfg[i]
        /\ \A j \in AuthIds : j # i => cfg[j] # cfg[i]

\* C15: close() is invoked at most once on each Authority over its lifetime.
C15_ClosedAtMostOnce == \A i \in AuthIds : closeCount[i] <= 1

\* resource name n specifies an authority the bootstrap table does not have
UnknownAuthority(n) == n # "" /\ n \notin DOMAIN Authorities

\* C10 as stated: a findAuthority for a resource name whose authority is not
\* in the bootstrap table returns a configuration error.
C10_UnknownAuthorityIsConfigError ==
    \A p \in Procs :
        (op[p] = "watch" /\ pc[p] = "idle" /\ UnknownAuthority(arg[p])) =>
            err[p] = ErrConfig

\* C10 (amended): while the done flag has not fired, a findAuthority for a
\* resource name whose authority is not in the bootstrap table fails with the
\* configuration error (with the client-closed error once done has fired);
\* either way the registry, the idle cache and the reference counts are
\* unchanged and nothing is created; a successful findAuthority for a name
\* that specifies no authority returns an authority of the default server.
C10_UnknownAuthorityRejected ==
    [][\A p \in Procs :
          FindStep(p) =>
              /\ UnknownAuthority(arg[p]) =>
                    /\ err'[p] = (IF done THEN ErrClosed ELSE ErrConfig)
                    /\ UNCHANGED <<authorities, idleAuthorities, created, refs, a>>
              /\ (arg[p] = "" /\ err'[p] = ErrNone) =>
                    /\ a'[p] # Nil
                    /\ cfg'[a'[p]] = DefaultServer
                    /\ authorities'[DefaultServer] = a'[p]]_vars

\* on an open client a watch for an unknown authority has failed with the
\* configuration error while the default server's authority is held
C10_Witness ==
    \E p \in Procs, q \in Procs :
        /\ op[p] = "watch" /\ pc[p] = "idle" /\ arg[p] = "zz" /\ err[p] = ErrConfig
        /\ ~done
        /\ op[q] = "watch" /\ pc[q] = "idle" /\ arg[q] = "" /\ a[q] # Nil

----------------------------------------------------------------------------
(* Properties of the timeout cache. *)

\* item i is the entry of some key
InCache(i) == \E k \in Servers : idleAuthorities[k] = i

\* C7: of one AddOrUpdate never two of these happen: a Get/Remove caller
\* observes a hit, another caller observes a hit, onExpiry runs. After a hit
\* the entry is absent and its timer is cancelled; once the timer has fired
\* the entry is absent, so Get reports not-found and onExpiry runs once.
C7_HitOrExpiryNeverBoth ==
    \A i \in Created :
        /\ tcHits[i] + closeCount[i] + (IF i \in expiring THEN 1 ELSE 0) <= 1
        /\ (tcHits[i] > 0 \/ closeCount[i] > 0 \/ i \in expiring) => ~InCache(i)

\* one entry was hit by a Get/Remove, the onExpiry of another one has run,
\* and the timer of a third one has fired
C7_Witness ==
    \E i \in Created, j \in Created, k \in Created :
        /\ tcHits[i] = 1 /\ closeCount[i] = 0
        /\ closeCount[j] = 1 /\ tcHits[j] = 0
        /\ k \in expiring

\* C11: a Clear leaves the cache empty; Clear(true) has run the expiry
\* callback of every entry it removed exactly once when it returns and no
\* timer runs it again; Clear(false) runs no callback of the entries it
\* removed, then or later.
C11_ClearRunsCallbacksOnce ==
    [][/\ tcCleared' # tcCleared => \A k \in Servers : idleAuthorities'[k] = Nil
       /\ \A i \in AuthIds :
            tcCleared'[i] # 0 =>
                /\ closeCount'[i] = (IF tcCleared'[i] = 1 THEN 1 ELSE 0)
                /\ i \notin expiring'
                /\ \A k \in Servers : idleAuthorities'[k] # i]_vars

\* one entry was removed by Clear(true) and its callback has run once, a
\* later one was removed by Clear(false), and a timer has fired since
C11_Witness ==
    \E i \in Created, j \in Created, k \in Created :
        /\ tcCleared[i] = 1 /\ closeCount[i] = 1
        /\ tcCleared[j] = 2 /\ closeCount[j] = 0
        /\ closeCount[k] = 1 /\ tcCleared[k] = 0

----------------------------------------------------------------------------
(* Properties of the update validator. *)

\* instance name n is set and is no key of the bootstrap table
Missing(n) == n # "" /\ n \notin certProviders

\* C8: security-config validation returns an error exactly when a non-empty
\* IdentityInstanceName or a non-empty RootInstanceName is no key of
\* CertProviderConfigs; the error names the missing instance, the identity
\* instance when both are missing; a nil config, and one whose named
\* instances are all present or which names none, is accepted.
C8_RejectsMissingProviders ==
    /\ vIn = None => vOut = NoError
    /\ vIn # None =>
        LET id == vIn[1].IdentityInstanceName
            root == vIn[1].RootInstanceName
        IN  /\ (vOut # NoError) <=> (Missing(id) \/ Missing(root))
            /\ Missing(id) => vOut = MissingProvider("identity", id)
            /\ (~Missing(id) /\ Missing(root)) => vOut = MissingProvider("root", root)

\* security config sc, which may be nil, names no missing instance
Passes(sc) ==
    sc = None \/ (~Missing(sc[1].IdentityInstanceName) /\ ~Missing(sc[1].RootInstanceName))

\* what the update u has to satisfy to be accepted
Acceptable(u) ==
    CASE u.kind = "cluster" -> Passes(u.SecurityCfg)
      [] u.kind = "listener" ->
            \/ u.InboundListenerCfg = None
            \/ u.InboundListenerCfg[1].FilterChains = None
            \/ LET chains == u.InboundListenerCfg[1].FilterChains[1]
               IN  \A k \in DOMAIN chains :
                       chains[k] = None \/ Passes(chains[k][1].SecurityCfg)
      [] OTHER -> TRUE

\* C16: updateValidator accepts a cluster update iff its security config
\* passes (nil passes); it accepts a listener update with no inbound listener
\* config or no filter-chain set, and otherwise iff the security config of
\* every chain passes (a nil chain passes); it accepts every update of another
\* kind; and it changes neither the client's state nor its bootstrap table.
C16_UpdateValidatorDispatch ==
    /\ [](uIn # None => (uOut = NoError <=> Acceptable(uIn[1])))
    /\ [][UNCHANGED <<clientVars, cacheObs, certProviders>>]_vars

\* a listener update with a nil chain and a chain whose root instance is
\* missing was rejected with that instance named
C16_Witness ==
    /\ uIn # None
    /\ uIn[1].kind = "listener"
    /\ uIn[1].InboundListenerCfg # None
    /\ uIn[1].InboundListenerCfg[1].FilterChains # None
    /\ LET chains == uIn[1].InboundListenerCfg[1].FilterChains[1]
       IN  /\ Len(chains) = 2
           /\ chains[1] = None
           /\ chains[2] # None
           /\ chains[2][1].SecurityCfg # None
           /\ Missing(chains[2][1].SecurityCfg[1].RootInstanceName)
           /\ uOut = MissingProvider("root", chains[2][1].SecurityCfg[1].RootInstanceName)

\* a config whose identity and root instances are both missing was rejected
\* with the identity instance named, against a table that has another instance
C8_Witness ==
    /\ vIn # None
    /\ Missing(vIn[1].IdentityInstanceName) /\ Missing(vIn[1].RootInstanceName)
    /\ vIn[1].IdentityInstanceName # vIn[1].RootInstanceName
    /\ certProviders # {}
    /\ vOut = MissingProvider("identity", vIn[1].IdentityInstanceName)

----------------------------------------------------------------------------
(* Properties of the load-report codec. *)

\* report r is not nil and proto.Marshal accepts it
ValidReport(r) == r # None /\ \A k \in DOMAIN r[1].cost : ValidUTF8(k)

\* C9: for every valid non-nil load report v, fromBytes(toBytes(v)) and
\* FromMetadata(ToMetadata(v)) are non-nil and equal v, the report whose
\* encoding is the empty byte string included.
C9_CodecRoundTrip ==
    ValidReport(cIn) =>
        /\ cBytes # None
        /\ cFromBytes = cIn
        /\ Len(Get(cMD, mdKey)) = 1
        /\ cFromMD = cIn

\* the byte string b is no encoding of a load report
Malformed(b) ==
    \E i \in DOMAIN b : b[i].f = 0 \/ (b[i].f = 4 /\ ~ValidUTF8(b[i].k))

\* C17: ToMetadata of a nil report and of a report that does not serialize is
\* the nil metadata, with no value under any key; ToMetadata of an encodable
\* report has exactly one value under the key; FromMetadata is nil when the key
\* has no value and when its first value is malformed, and otherwise it is the
\* decoding of the first value, whatever values follow it.
C17_CodecNeverFails ==
    /\ ~ValidReport(cIn) => cBytes = None /\ cMD = NilMD
    /\ ValidReport(cIn) =>
        /\ Len(Get(cMD, mdKey)) = 1
        /\ \A k \in MDKeys : k # ToLower(mdKey) => cMD[k] = <<>>
    /\ LET vs == Get(dIn, mdKey) IN
        /\ Len(vs) = 0 => dOut = None
        /\ Len(vs) > 0 /\ Malformed(vs[1]) => dOut = None
        /\ Len(vs) > 0 /\ ~Malformed(vs[1]) => dOut # None /\ dOut = Unmarshal(vs[1])

\* a report that does not serialize gave the nil metadata, and metadata with
\* a well-formed first value and a malformed second one gave the report of
\* the first
C17_Witness ==
    /\ cIn # None /\ ~ValidReport(cIn) /\ cMD = NilMD
    /\ LET vs == Get(dIn, mdKey) IN
        /\ Len(vs) = 2
        /\ ~Malformed(vs[1]) /\ Malformed(vs[2])
        /\ dOut # None /\ dOut[1].cost # <<>>

\* a report with a zero field and two cost entries has gone round both ways,
\* its two encodings listing the entries in different orders
C9_Witness ==
    /\ ValidReport(cIn) /\ Cardinality(DOMAIN cIn[1].cost) = 2
    /\ cIn[1].cpu = 0 /\ cIn[1].rps # 0
    /\ cBytes # None /\ Len(cBytes[1]) = 3
    /\ Get(cMD, mdKey) # cBytes
    /\ cFromBytes = cIn /\ cFromMD = cIn

----------------------------------------------------------------------------
(* Properties of the options. *)

\* the Options value after the k-th remembered application
After(k) == IF k = Len(optLog) THEN opt ELSE optLog[k + 1].to

\* C20: WithGroup(g) sets Group to g and leaves Timeout as it was;
\* WithTimeout(t) sets Timeout to t and leaves Group as it was; a WithGroup and
\* a WithTimeout applied one after the other, in either order, give the Options
\* with that group and that timeout; of two applications of the same option
\* the second one's value stays.
C20_OptionsFrame ==
    /\ \A k \in DOMAIN optLog :
        LET e == optLog[k] IN
        IF e.applied.with = "Group"
          THEN After(k) = [Group |-> e.applied.group, Timeout |-> e.to.Timeout]
          ELSE After(k) = [Group |-> e.to.Group, Timeout |-> e.applied.time]
    /\ Len(optLog) = 2 =>
        LET f == optLog[1].applied
            g == optLog[2].applied
        IN  /\ f.with = "Group" /\ g.with = "Timeout" =>
                opt = [Group |-> f.group, Timeout |-> g.time]
            /\ f.with = "Timeout" /\ g.with = "Group" =>
                opt = [Group |-> g.group, Timeout |-> f.time]
            /\ f.with = "Group" /\ g.with = "Group" =>
                opt = [Group |-> g.group, Timeout |-> optLog[1].to.Timeout]
            /\ f.with = "Timeout" /\ g.with = "Timeout" =>
                opt = [Group |-> optLog[1].to.Group, Timeout |-> g.time]

\* WithGroup was applied after WithTimeout to an Options value that had
\* another group and another timeout
C20_Witness ==
    /\ Len(optLog) = 2
    /\ optLog[1].applied.with = "Timeout" /\ optLog[2].applied.with = "Group"
    /\ optLog[1].to.Timeout # 0 /\ optLog[1].applied.time # 0
    /\ optLog[1].applied.time # optLog[1].to.Timeout
    /\ optLog[2].applied.group # optLog[1].to.Group
    /\ opt = [Group |-> optLog[2].applied.group, Timeout |-> optLog[1].applied.time]

====
